---- MODULE Spec2Model ----
(***************************************************************************)
(* Debate orchestration engine of telegram-ai-debate-bot:                  *)
(*   - OpenRouterClient (src/src/ai/openrouter_client.py): one backend     *)
(*     call with retries, reply parsing and confidence extraction;         *)
(*   - DebateManagerV2 (src/src/ai/debate_manager.py): the round loop of   *)
(*     start_debate, the round handlers, the final-answer policy, the      *)
(*     completion and persistence of the session;                          *)
(*   - the data classes of src/src/ai/models.py.                           *)
(*                                                                         *)
(* Python's None is the empty sequence and a present value x is <<x>>.     *)
(* A text is a sequence of tokens; the empty string is the empty text.     *)
(***************************************************************************)
EXTENDS Integers, Sequences, FiniteSets, TLC

VARIABLES
    mode_structure,  \* debate_mode['structure'] of the run
    model_keys,      \* the model_keys list of the run
    session,         \* the DebateSession
    pc,              \* position of start_debate
    ri,              \* index of the next entry of mode_structure
    hr,              \* locals of the running round handler
    final,           \* (final_answer, final_confidence) of lines 108-116, with
                     \* the branch that computed them
    cl,              \* the running get_response call of the client
    saved,           \* the sessions _save_debate has written, in order
    err,             \* the exception start_debate raised, "" if none
    fan,             \* a get_multiple_responses call and its per-key calls
    duo              \* two start_debate coroutines on the one event loop

vars ==
    <<mode_structure, model_keys, session, pc, ri, hr, final, cl, saved, err,
      fan, duo>>

----------------------------------------------------------------------------
(* Optional values *)

None == <<>>
Some(x) == <<x>>

----------------------------------------------------------------------------
(* Configuration (the read-only collaborators) *)

\* config.models: the backend keys of the registry, in their order
AllModelKeys == <<"gemini", "chatgpt">>
Registry == {AllModelKeys[i] : i \in 1..Len(AllModelKeys)}

\* the backend every synthesis call goes to
Synthesizer == "chatgpt"

\* config.openrouter['retry_attempts']
retry_attempts == 3

RoundTypes ==
    {"independent_generation", "mutual_critique", "critique_and_synthesis",
     "improvement", "improvement_and_synthesis", "consensus_building",
     "final_synthesis"}

\* a mode structure numbering its rounds 1..N in order
Structure(types) == [i \in 1..Len(types) |-> [round |-> i, type |-> types[i]]]

\* config.debate_modes: the quick, standard and deep modes, and modes whose
\* structures end in, start with or consist of other types
debate_modes ==
    [quick |-> Structure(<<"independent_generation", "critique_and_synthesis">>),
     standard |-> Structure(<<"independent_generation", "mutual_critique",
                              "improvement_and_synthesis">>),
     deep |-> Structure(<<"independent_generation", "mutual_critique",
                          "improvement", "consensus_building",
                          "final_synthesis">>),
     improve |-> Structure(<<"independent_generation", "mutual_critique",
                             "improvement">>),
     brief |-> Structure(<<"independent_generation", "final_synthesis">>),
     vote |-> Structure(<<"independent_generation", "legacy_vote",
                          "consensus_building">>),
     critique |-> Structure(<<"mutual_critique">>),
     rework |-> Structure(<<"independent_generation", "improvement">>),
     consensus |-> Structure(<<"consensus_building">>),
     synthesis |-> Structure(<<"final_synthesis">>)]

\* the mode structures a run is started on
ModeStructures == { debate_modes[m] : m \in DOMAIN debate_modes }

\* a lookup that falls back to the first mode of the registry
get_debate_mode_FirstMode(mode) ==
    IF mode \in DOMAIN debate_modes THEN debate_modes[mode]
    ELSE debate_modes["quick"]

\* line 48 of start_debate: config.debate_modes.get(mode,
\* config.debate_modes['standard'])
get_debate_mode(mode) ==
    IF mode \in DOMAIN debate_modes THEN debate_modes[mode]
    ELSE debate_modes["standard"]

\* the mode arguments a run is started with: the names of the registry and
\* a name it does not know
ModeArgs == DOMAIN debate_modes \cup {"turbo"}

\* the model_keys arguments a run is started with (None: all registry keys)
KeyArgs ==
    { None, Some(<<"gemini">>), Some(<<"gemini", "chatgpt">>),
      Some(<<"chatgpt", "ghost">>) }

\* lines 58-59 of start_debate
ResolveKeys(arg) == IF arg = None THEN AllModelKeys ELSE arg[1]

\* the backend calls a run issues when none fails: one per key and round, one
\* per synthesis, one for the fallback synthesis
RECURSIVE NumCalls(_, _)
NumCalls(structure, nkeys) ==
    IF structure = <<>> THEN 0
    ELSE LET t == Head(structure).type
             here == CASE t \in {"independent_generation", "mutual_critique",
                                 "improvement", "consensus_building"} -> nkeys
                       [] t \in {"critique_and_synthesis",
                                 "improvement_and_synthesis"} -> nkeys + 1
                       [] t = "final_synthesis" -> 1
                       [] OTHER -> 0
         IN here + NumCalls(Tail(structure), nkeys)

\* with the fallback synthesis of a structure that does not end in
\* final_synthesis
RunCalls(structure, nkeys) ==
    NumCalls(structure, nkeys)
    + (IF structure[Len(structure)].type # "final_synthesis" THEN 1 ELSE 0)

\* the runs explored issue at most this many backend calls
MaxCalls == 7

----------------------------------------------------------------------------
(* Texts *)

\* token kinds: "ru" a word starting with (У|у)веренност, "en" a word starting
\* with (C|c)onfiden, "num" a run of digits, "pct" a percent sign directly
\* after the preceding token, "word" any other word (v tells words apart)
Tok(k, v) == [k |-> k, v |-> v]

KeyId(key) == CHOOSE i \in 1..Len(AllModelKeys) : AllModelKeys[i] = key

\* the patterns of _extract_confidence in their order, with the place of the
\* captured number
Patterns ==
    << [toks |-> <<"ru", "num", "pct">>, group |-> 2],
       [toks |-> <<"en", "num", "pct">>, group |-> 2],
       [toks |-> <<"num", "pct", "ru">>, group |-> 1],
       [toks |-> <<"num", "pct", "en">>, group |-> 1] >>

MatchesAt(text, i, toks) ==
    /\ i + Len(toks) - 1 <= Len(text)
    /\ \A j \in 1..Len(toks) : text[i + j - 1].k = toks[j]

\* re.search: the leftmost match of one pattern, 0 when there is none
Search(text, toks) ==
    LET hits == {i \in 1..Len(text) : MatchesAt(text, i, toks)}
    IN IF hits = {} THEN 0 ELSE CHOOSE i \in hits : \A j \in hits : i <= j

RECURSIVE ExtractFrom(_, _)
ExtractFrom(text, p) ==
    IF p > Len(Patterns) THEN None
    ELSE LET at == Search(text, Patterns[p].toks)
         IN IF at # 0 THEN Some(text[at + Patterns[p].group - 1].v)
            ELSE ExtractFrom(text, p + 1)

\* an extraction that takes the leftmost match of any pattern
ExtractConfidence_Leftmost(text) ==
    LET hits == { i \in 1..Len(text) :
                    \E p \in DOMAIN Patterns : MatchesAt(text, i, Patterns[p].toks) }
    IN IF hits = {} THEN None
       ELSE LET at == CHOOSE i \in hits : \A j \in hits : i <= j
                p == CHOOSE q \in DOMAIN Patterns :
                         MatchesAt(text, at, Patterns[q].toks)
            IN Some(text[at + Patterns[p].group - 1].v)

\* OpenRouterClient._extract_confidence on a str
ExtractConfidence(text) == ExtractFrom(text, 1)

MaxTextLen == 6

\* the numbers a reply text may hold
Numbers == {40, 73, 150}

\* the tokens of a reply text that the patterns look at
Alphabet ==
    {Tok("ru", 0), Tok("en", 0), Tok("pct", 0)}
        \cup { Tok("num", n) : n \in Numbers }

\* the reply texts of a backend
Texts == UNION { [1..n -> Alphabet] : n \in 0..MaxTextLen }

----------------------------------------------------------------------------
(* Reply bodies: the parsed OpenRouterResponse of a status-200 reply *)

Choice(message, content, text) ==
    [message |-> message, content |-> content, text |-> text]

Usage(has_total, n) == [has_total |-> has_total, total_tokens |-> n]

Body(choices, usage) == [choices |-> choices, usage |-> usage]

ConfidentText(key, label, n) ==
    <<Tok("word", KeyId(key)), Tok(label, 0), Tok("num", n), Tok("pct", 0)>>

\* the replies a backend may give to one request
Bodies(key) ==
    { Body(<<>>, None),
      Body(<<Choice("missing", "missing", <<>>)>>, Some(Usage(FALSE, 0))),
      Body(<<Choice("dict", "missing", <<>>)>>, None),
      Body(<<Choice("dict", "null", <<>>)>>, None),
      Body(<<Choice("null", "missing", <<>>)>>, None),
      Body(<<Choice("dict", "str", ConfidentText(key, "en", 95))>>,
           Some(Usage(TRUE, 5))),
      Body(<<Choice("dict", "str", ConfidentText(key, "ru", 0))>>,
           Some(Usage(TRUE, 3))) }

\* a backend answers the prompt it was sent: the text of a reply names the
\* stage whose prompt it answers
Tagged(body, stage) ==
    IF Len(body.choices) > 0 /\ body.choices[1].content = "str"
    THEN [body EXCEPT !.choices[1].text = <<Tok("word", 100 + stage)>> \o @]
    ELSE body

\* a returned value or a raised exception
Ret(v) == [raised |-> "", v |-> v]
Raise(e) == [raised |-> e, v |-> None]

\* OpenRouterResponse.get_content: the content (None for a null content)
get_content(body) ==
    IF Len(body.choices) > 0
    THEN LET c == body.choices[1]
         IN IF c.message = "missing" THEN Ret(Some(<<>>))
            ELSE IF c.message = "null" THEN Raise("AttributeError")
            ELSE IF c.content = "missing" THEN Ret(Some(<<>>))
            ELSE IF c.content = "null" THEN Ret(None)
            ELSE Ret(Some(c.text))
    ELSE Ret(Some(<<>>))

\* OpenRouterResponse.get_tokens_used
get_tokens_used(body) ==
    IF body.usage # None
    THEN IF body.usage[1].has_total THEN body.usage[1].total_tokens ELSE 0
    ELSE 0

AIResponse(key, content, confidence, tokens) ==
    [model_key |-> key, content |-> content, confidence |-> confidence,
     tokens_used |-> tokens]

\* get_response after _make_request returned a reply (lines 149-162)
BuildResponse(key, body) ==
    LET content == get_content(body)
    IN IF content.raised # "" THEN Raise(content.raised)
       ELSE IF content.v = None THEN Raise("TypeError")
       ELSE Ret(Some(AIResponse(key, content.v[1],
                                ExtractConfidence(content.v[1]),
                                Some(get_tokens_used(body)))))

----------------------------------------------------------------------------
(* OpenRouterClient: one get_response call *)

\* how an HTTP attempt fails
FailKinds == {"timeout", "status", "transport", "malformed"}

\* seconds of one wait between attempts
retry_delay == 2

\* the configuration of each backend, as far as the generation hints go: one
\* backend defines both hints, the other defines neither
models ==
    [gemini  |-> [reasoning |-> Some("medium"), verbosity |-> Some("low")],
     chatgpt |-> [reasoning |-> None, verbosity |-> None]]

\* dict.get(name, 'high')
GetOr(value, default) == IF value = None THEN default ELSE value[1]

\* the hint fields of request_dict (lines 135-136, 58-61): a field is set
\* when its value is a non-empty string
HintField(value) == IF value # "" THEN Some(value) ELSE None

Request(key) ==
    [reasoning_effort |-> HintField(GetOr(models[key].reasoning, "high")),
     verbosity        |-> HintField(GetOr(models[key].verbosity, "high"))]

IdleClient ==
    [pc |-> "idle", key |-> "", attempt |-> 0, posts |-> 0, sleeps |-> 0,
     waited |-> 0, last |-> "", body |-> None, result |-> None, err |-> "",
     request |-> None]

\* a get_response that indexes the registry: an unknown key raises
StartCall_IndexesRegistry(key) ==
    IF key \notin Registry
    THEN [IdleClient EXCEPT !.pc = "raised", !.key = key, !.err = "KeyError"]
    ELSE [IdleClient EXCEPT !.pc = "request", !.key = key]

\* get_response up to the first HTTP attempt (lines 128-147, 72): an unknown
\* key returns None at once
StartCall(key) ==
    IF key \notin Registry \/ retry_attempts = 0
    THEN [IdleClient EXCEPT !.pc = "returned", !.key = key]
    ELSE [IdleClient EXCEPT !.pc = "request", !.key = key,
                            !.request = Some(Request(key))]

\* a loop of retry_attempts + 1 attempts
AfterFailure_ExtraAttempt(c, kind) ==
    [c EXCEPT !.posts = @ + 1,
              !.last = kind,
              !.attempt = @ + 1,
              !.sleeps = IF c.attempt < retry_attempts THEN @ + 1 ELSE @,
              !.pc = IF c.attempt + 1 < retry_attempts + 1 THEN "request"
                     ELSE "returned"]

\* a loop that repeats the attempt until it succeeds
AfterFailure_UntilSuccess(c, kind) == [c EXCEPT !.last = kind]

\* a loop whose wait doubles with every attempt
AfterFailure_Backoff(c, kind) ==
    [c EXCEPT !.posts = @ + 1,
              !.last = kind,
              !.attempt = @ + 1,
              !.sleeps = IF c.attempt < retry_attempts - 1 THEN @ + 1 ELSE @,
              !.waited = IF c.attempt < retry_attempts - 1
                         THEN @ + retry_delay * (2 ^ c.attempt) ELSE @,
              !.pc = IF c.attempt + 1 < retry_attempts THEN "request"
                     ELSE "returned"]

\* the loop of _make_request after a failed attempt (lines 103-107): sleep
\* retry_delay unless it was the last attempt, return None after the last
AfterFailure(c, kind) ==
    [c EXCEPT !.posts = @ + 1,
              !.last = kind,
              !.attempt = @ + 1,
              !.sleeps = IF c.attempt < retry_attempts - 1 THEN @ + 1 ELSE @,
              !.waited = IF c.attempt < retry_attempts - 1
                         THEN @ + retry_delay ELSE @,
              !.pc = IF c.attempt + 1 < retry_attempts THEN "request"
                     ELSE "returned"]

\* a status-200 reply that parses: _make_request returns it and get_response
\* builds the AIResponse from it (lines 81-84, 149-162)
AfterReply(c, body) ==
    LET r == BuildResponse(c.key, body)
    IN [c EXCEPT !.posts = @ + 1,
                 !.last = "ok",
                 !.body = Some(body),
                 !.result = r.v,
                 !.err = r.raised,
                 !.pc = IF r.raised = "" THEN "returned" ELSE "raised"]

\* the stage of start_debate whose prompt the running call carries: the
\* round of the handler, 0 for the call of _synthesize_final_answer
Stage == IF pc = "await_fallback" THEN 0 ELSE hr.round_num

\* the attempt gets a status-200 reply with a body that parses
AttemptOk ==
    /\ cl.pc = "request"
    /\ \E body \in Bodies(cl.key) : cl' = AfterReply(cl, Tagged(body, Stage))
    /\ UNCHANGED <<duo, fan, mode_structure, model_keys, session, pc, ri, hr, final,
                   saved, err>>

\* the attempt gets another status (lines 85-90)
AttemptStatus ==
    /\ cl.pc = "request"
    /\ cl' = AfterFailure(cl, "status")
    /\ UNCHANGED <<duo, fan, mode_structure, model_keys, session, pc, ri, hr, final,
                   saved, err>>

\* the attempt times out (lines 92-96)
AttemptTimeout ==
    /\ cl.pc = "request"
    /\ cl' = AfterFailure(cl, "timeout")
    /\ UNCHANGED <<duo, fan, mode_structure, model_keys, session, pc, ri, hr, final,
                   saved, err>>

\* an attempt whose exception is not caught
AttemptException_Propagates ==
    /\ cl.pc = "request"
    /\ \E kind \in {"transport", "malformed"} :
          cl' = [cl EXCEPT !.posts = @ + 1, !.last = kind, !.pc = "raised",
                           !.err = "ClientError"]
    /\ UNCHANGED <<duo, fan, mode_structure, model_keys, session, pc, ri, hr, final,
                   saved, err>>

\* the attempt raises another exception: the transport fails, or the body is
\* no JSON or no OpenRouterResponse (lines 97-101)
AttemptException ==
    /\ cl.pc = "request"
    /\ \E kind \in {"transport", "malformed"} : cl' = AfterFailure(cl, kind)
    /\ UNCHANGED <<duo, fan, mode_structure, model_keys, session, pc, ri, hr, final,
                   saved, err>>

Client == AttemptOk \/ AttemptStatus \/ AttemptTimeout \/ AttemptException

\* the attempt gets a status-200 reply whose content is any text
AttemptOkText ==
    /\ cl.pc = "request"
    /\ \E text \in Texts :
          cl' = AfterReply(cl, Body(<<Choice("dict", "str", text)>>,
                                    Some(Usage(TRUE, 5))))
    /\ UNCHANGED <<duo, fan, mode_structure, model_keys, session, pc, ri, hr, final,
                   saved, err>>

----------------------------------------------------------------------------
(* OpenRouterClient.get_multiple_responses: one get_response call per key, *)
(* run as concurrent tasks and joined by asyncio.gather                    *)

\* the variables of start_debate
debate_vars ==
    <<mode_structure, model_keys, session, pc, ri, hr, final, cl, saved, err>>

MaxFanKeys == 3

\* the model_keys lists of a get_multiple_responses call: distinct keys,
\* registered or not
FanKeyLists ==
    { ks \in UNION { [1..n -> Registry \cup {"ghost"}] : n \in 0..MaxFanKeys } :
        \A i, j \in DOMAIN ks : i # j => ks[i] # ks[j] }

IdleFanOut ==
    [pc |-> "idle", keys |-> <<>>, calls |-> <<>>, order |-> <<>>,
     result |-> <<>>, err |-> ""]

\* a get_response call that returned or raised
Settled(c) == c.pc \in {"returned", "raised"}

\* the indices from i on whose call has settled, in index order
RECURSIVE SettledIn(_, _)
SettledIn(calls, i) ==
    IF i > Len(calls) THEN <<>>
    ELSE (IF Settled(calls[i]) THEN <<i>> ELSE <<>>) \o SettledIn(calls, i + 1)

\* [r for r in responses if r is not None] (line 193)
RECURSIVE NotNone(_)
NotNone(responses) ==
    IF responses = <<>> THEN <<>>
    ELSE (IF Head(responses) = None THEN <<>> ELSE <<Head(responses)[1]>>)
         \o NotNone(Tail(responses))

\* lines 185-190: the task list is built in key order and gather starts
\* every task; each runs to its first HTTP attempt, a call for an unknown
\* key returns None at once
StartGather ==
    /\ fan.pc = "idle"
    /\ LET calls == [i \in DOMAIN fan.keys |-> StartCall(fan.keys[i])]
       IN fan' = [fan EXCEPT !.pc = "gather", !.calls = calls,
                             !.order = SettledIn(calls, 1)]
    /\ UNCHANGED <<debate_vars, duo>>

\* the call of key i moves to c; a call that settles completes its task
FanStep(i, c) ==
    fan' = [fan EXCEPT !.calls[i] = c,
                       !.order = IF Settled(c) THEN Append(@, i) ELSE @]

\* one task's attempt gets a status-200 reply with a body that parses
FanAttemptOk ==
    /\ \E i \in DOMAIN fan.calls :
          /\ fan.calls[i].pc = "request"
          /\ \E body \in Bodies(fan.keys[i]) :
                FanStep(i, AfterReply(fan.calls[i], body))
    /\ UNCHANGED <<debate_vars, duo>>

\* one task's attempt fails: another status, a timeout, another exception
FanAttemptFails ==
    /\ \E i \in DOMAIN fan.calls :
          /\ fan.calls[i].pc = "request"
          /\ \E kind \in FailKinds : FanStep(i, AfterFailure(fan.calls[i], kind))
    /\ UNCHANGED <<debate_vars, duo>>

\* a join that lists the responses in the order the tasks completed
GatherReturn_CompletionOrder ==
    /\ fan.pc = "gather"
    /\ \A i \in DOMAIN fan.calls : fan.calls[i].pc = "returned"
    /\ fan' = [fan EXCEPT
                 !.pc = "returned",
                 !.result = NotNone([p \in DOMAIN fan.order |->
                                        fan.calls[fan.order[p]].result])]
    /\ UNCHANGED <<debate_vars, duo>>

\* a join that returns as soon as one task has returned
GatherReturn_FirstCompleted ==
    /\ fan.pc = "gather"
    /\ \E i \in DOMAIN fan.calls : fan.calls[i].pc = "returned"
    /\ fan' = [fan EXCEPT
                 !.pc = "returned",
                 !.result = NotNone([i \in DOMAIN fan.calls |->
                                        fan.calls[i].result])]
    /\ UNCHANGED <<debate_vars, duo>>

\* lines 190-193: gather returns the results of all tasks in the order of
\* the task list once every task has returned; the None results are dropped
GatherReturn ==
    /\ fan.pc = "gather"
    /\ \A i \in DOMAIN fan.calls : fan.calls[i].pc = "returned"
    /\ fan' = [fan EXCEPT
                 !.pc = "returned",
                 !.result = NotNone([i \in DOMAIN fan.calls |->
                                        fan.calls[i].result])]
    /\ UNCHANGED <<debate_vars, duo>>

\* line 190: gather propagates the first exception a task raised; the other
\* tasks keep running
GatherRaise ==
    /\ fan.pc = "gather"
    /\ \E p \in DOMAIN fan.order :
          /\ fan.calls[fan.order[p]].pc = "raised"
          /\ \A q \in 1..(p - 1) : fan.calls[fan.order[q]].pc # "raised"
          /\ fan' = [fan EXCEPT !.pc = "raised",
                                !.err = fan.calls[fan.order[p]].err]
    /\ UNCHANGED <<debate_vars, duo>>

----------------------------------------------------------------------------
(* DebateSession and the helpers of DebateManagerV2 *)

NewSession ==
    [mode |-> "standard", rounds |-> <<>>, final_answer |-> None,
     final_confidence |-> None, completed_at |-> None, total_tokens |-> 0]

DebateRound(round_number, responses) ==
    [round_number |-> round_number, responses |-> responses]

\* DebateSession.add_round
add_round(s, round_data) == [s EXCEPT !.rounds = Append(@, round_data)]

\* complete without its last assignment
complete_WithoutCompletedAt(s, final_answer, confidence) ==
    [s EXCEPT !.final_answer = Some(final_answer),
              !.final_confidence = Some(confidence)]

\* DebateSession.complete
complete(s, final_answer, confidence) ==
    [s EXCEPT !.final_answer = Some(final_answer),
              !.final_confidence = Some(confidence),
              !.completed_at = Some("now")]

\* the confidence of a synthesis that states none (lines 116, 499)
SynthesisDefault == 85

\* the confidence of a best response that states none (line 507)
BestResponseDefault == 80

\* Python's "confidence or default": None and 0 are both falsy
ConfidenceOr(confidence, default) ==
    IF confidence = None \/ confidence[1] = 0 THEN default ELSE confidence[1]

\* Python's "tokens_used or 0"
TokensOr0(tokens) == IF tokens = None THEN 0 ELSE tokens[1]

RECURSIVE SumResponses(_)
SumResponses(responses) ==
    IF responses = <<>> THEN 0
    ELSE TokensOr0(Head(responses).tokens_used) + SumResponses(Tail(responses))

\* a sum over the last round alone
SumTokens_LastRound(rounds) ==
    IF rounds = <<>> THEN 0 ELSE SumResponses(rounds[Len(rounds)].responses)

\* the sum of lines 123-127
RECURSIVE SumTokens(_)
SumTokens(rounds) ==
    IF rounds = <<>> THEN 0
    ELSE SumResponses(Head(rounds).responses) + SumTokens(Tail(rounds))

\* max(responses, key=lambda r: r.confidence or 0) on a non-empty list: the
\* first response no later one exceeds
RECURSIVE MaxFrom(_, _, _)
MaxFrom(responses, i, best) ==
    IF i > Len(responses) THEN best
    ELSE IF ConfidenceOr(responses[i].confidence, 0)
              > ConfidenceOr(best.confidence, 0)
         THEN MaxFrom(responses, i + 1, responses[i])
         ELSE MaxFrom(responses, i + 1, best)

\* a max that keeps the last of the greatest responses
RECURSIVE MaxFromLast(_, _, _)
MaxFromLast(responses, i, best) ==
    IF i > Len(responses) THEN best
    ELSE IF ConfidenceOr(responses[i].confidence, 0)
              >= ConfidenceOr(best.confidence, 0)
         THEN MaxFromLast(responses, i + 1, responses[i])
         ELSE MaxFromLast(responses, i + 1, best)

BestResponse_LastMax(responses) == MaxFromLast(responses, 2, responses[1])

\* a max that prefers a response without a confidence
BestResponse_AbsentFirst(responses) ==
    IF \E i \in 1..Len(responses) : responses[i].confidence = None
    THEN responses[CHOOSE i \in 1..Len(responses) :
                       /\ responses[i].confidence = None
                       /\ \A j \in 1..(i - 1) : responses[j].confidence # None]
    ELSE MaxFrom(responses, 2, responses[1])

BestResponse(responses) == MaxFrom(responses, 2, responses[1])

PerKeyTypes ==
    {"independent_generation", "mutual_critique", "critique_and_synthesis",
     "improvement", "improvement_and_synthesis", "consensus_building"}

FusedTypes == {"critique_and_synthesis", "improvement_and_synthesis"}

\* the recorded rounds a handler and its call index: rounds[-1] for the
\* critique and consensus rounds, rounds[0] and rounds[1] for improvement
RoundsIndexed(type) ==
    IF type \in {"mutual_critique", "critique_and_synthesis",
                 "consensus_building"} THEN 1
    ELSE IF type \in {"improvement", "improvement_and_synthesis"} THEN 2
    ELSE 0

\* _format_responses_for_context: one block per response, in order
format_responses_for_context(responses) ==
    [i \in DOMAIN responses |->
        [model_key |-> responses[i].model_key,
         content |-> responses[i].content,
         confidence |-> responses[i].confidence]]

\* the context text a handler formats before its first call: the responses
\* of the last recorded round for critique and consensus rounds
HandlerContext(type, rounds) ==
    IF type \in {"mutual_critique", "critique_and_synthesis",
                 "consensus_building"}
    THEN format_responses_for_context(rounds[Len(rounds)].responses)
    ELSE <<>>

\* the round prompt of a call that fills no template
NoPrompt ==
    [template |-> "", role |-> "", your_previous_response |-> None,
     responses |-> <<>>]

\* next((r for r in responses if r.model_key == key), None)
FirstOf(responses, key) ==
    LET own == { i \in DOMAIN responses : responses[i].model_key = key }
    IN IF own = {} THEN None
       ELSE Some(responses[CHOOSE i \in own : \A j \in own : i <= j])

\* [r for r in responses if r.model_key != key]
OthersOf(responses, key) ==
    LET Other(r) == r.model_key # key
    IN SelectSeq(responses, Other)

\* an improvement prompt that quotes every critique of the round
ImprovementPrompt_AllCritiques(key, rounds) ==
    LET your_previous == FirstOf(rounds[1].responses, key)
    IN [template |-> "round_3_improvement",
        role |-> key,
        your_previous_response |->
            IF your_previous = None THEN None
            ELSE Some(your_previous[1].content),
        responses |-> format_responses_for_context(rounds[2].responses)]

\* an improvement prompt with an empty text where the key has no previous
\* response
ImprovementPrompt_EmptyPrevious(key, rounds) ==
    LET your_previous == FirstOf(rounds[1].responses, key)
    IN [template |-> "round_3_improvement",
        role |-> key,
        your_previous_response |->
            IF your_previous = None THEN Some(<<>>)
            ELSE Some(your_previous[1].content),
        responses |-> format_responses_for_context(
                          OthersOf(rounds[2].responses, key))]

\* lines 299-317: the prompt of an improvement call: the key's own content
\* of rounds[0] (None: the placeholder text) and the responses of rounds[1]
\* that other keys wrote
ImprovementPrompt(key, rounds) ==
    LET your_previous == FirstOf(rounds[1].responses, key)
    IN [template |-> "round_3_improvement",
        role |-> key,
        your_previous_response |->
            IF your_previous = None THEN None
            ELSE Some(your_previous[1].content),
        responses |-> format_responses_for_context(
                          OthersOf(rounds[2].responses, key))]

\* the round prompt a handler formats for the call of a key: the template
\* of its round type, the role of the key and the responses it quotes
RoundPrompt(type, key, context, rounds) ==
    IF type = "independent_generation"
    THEN [NoPrompt EXCEPT !.template = "round_1_independent", !.role = key]
    ELSE IF type \in {"mutual_critique", "critique_and_synthesis"}
    THEN [NoPrompt EXCEPT !.template = "round_2_critique", !.role = key,
                          !.responses = context]
    ELSE IF type \in {"improvement", "improvement_and_synthesis"}
    THEN ImprovementPrompt(key, rounds)
    ELSE [NoPrompt EXCEPT !.template = "round_4_consensus", !.role = key,
                          !.responses = context]

IdleHandler ==
    [type |-> "", round_num |-> 0, responses |-> <<>>, ki |-> 0,
     context |-> <<>>, prompt |-> NoPrompt]

----------------------------------------------------------------------------
(* DebateManagerV2.start_debate *)

\* an exception leaves start_debate
Raising(e) ==
    /\ pc' = "raised"
    /\ err' = e
    /\ hr' = IdleHandler
    /\ cl' = IdleClient
    /\ UNCHANGED <<duo, fan, mode_structure, model_keys, session, ri, final, saved>>

\* a loop that passes over the entry after the one just run
RoundDone_SkipsEntry(debate_round) ==
    /\ session' = add_round(session, debate_round)
    /\ ri' = ri + 2
    /\ pc' = "loop"
    /\ hr' = IdleHandler
    /\ cl' = IdleClient
    /\ UNCHANGED <<duo, fan, mode_structure, model_keys, final, saved, err>>

\* the handler returned debate_round: session.add_round and the next entry
RoundDone(debate_round) ==
    /\ session' = add_round(session, debate_round)
    /\ ri' = ri + 1
    /\ pc' = "loop"
    /\ hr' = IdleHandler
    /\ cl' = IdleClient
    /\ UNCHANGED <<duo, fan, mode_structure, model_keys, final, saved, err>>

\* lines 73-96: a round type with one call per key; the handler (or the
\* dispatch) indexes the recorded rounds before its first call
StartHandler ==
    /\ pc = "loop"
    /\ ri <= Len(mode_structure)
    /\ mode_structure[ri].type \in PerKeyTypes
    /\ IF Len(session.rounds) < RoundsIndexed(mode_structure[ri].type)
       THEN Raising("IndexError")
       ELSE /\ hr' = [type |-> mode_structure[ri].type,
                      round_num |-> mode_structure[ri].round,
                      responses |-> <<>>, ki |-> 1,
                      context |-> HandlerContext(mode_structure[ri].type,
                                                 session.rounds),
                      prompt |-> NoPrompt]
            /\ pc' = "keys"
            /\ UNCHANGED <<duo, fan, mode_structure, model_keys, session, ri, final, cl,
                           saved, err>>

\* lines 97-100, 438-464: final_synthesis asks the synthesizer
StartFinalSynthesis ==
    /\ pc = "loop"
    /\ ri <= Len(mode_structure)
    /\ mode_structure[ri].type = "final_synthesis"
    /\ hr' = [type |-> "final_synthesis",
              round_num |-> mode_structure[ri].round,
              responses |-> <<>>, ki |-> 0, context |-> <<>>,
              prompt |-> NoPrompt]
    /\ cl' = StartCall(Synthesizer)
    /\ pc' = "await_synth"
    /\ UNCHANGED <<duo, fan, mode_structure, model_keys, session, ri, final, saved, err>>

\* an unknown round type recorded as a round without responses
SkipUnknownType_RecordsRound ==
    /\ pc = "loop"
    /\ ri <= Len(mode_structure)
    /\ mode_structure[ri].type \notin PerKeyTypes \cup {"final_synthesis"}
    /\ session' = add_round(session,
                            DebateRound(mode_structure[ri].round, <<>>))
    /\ ri' = ri + 1
    /\ UNCHANGED <<duo, fan, mode_structure, model_keys, pc, hr, final, cl, saved,
                   err>>

\* lines 101-103: an unknown round type is skipped
SkipUnknownType ==
    /\ pc = "loop"
    /\ ri <= Len(mode_structure)
    /\ mode_structure[ri].type \notin PerKeyTypes \cup {"final_synthesis"}
    /\ ri' = ri + 1
    /\ UNCHANGED <<duo, fan, mode_structure, model_keys, session, pc, hr, final, cl,
                   saved, err>>

\* the handler's loop over model_keys: config.models[model_key], then the call
CallNextKey ==
    /\ pc = "keys"
    /\ hr.ki <= Len(model_keys)
    /\ IF model_keys[hr.ki] \notin Registry
       THEN Raising("KeyError")
       ELSE /\ hr' = [hr EXCEPT !.prompt =
                          RoundPrompt(hr.type, model_keys[hr.ki], hr.context,
                                      session.rounds)]
            /\ cl' = StartCall(model_keys[hr.ki])
            /\ pc' = "await_key"
            /\ UNCHANGED <<duo, fan, mode_structure, model_keys, session, ri, final,
                           saved, err>>

\* the call of the key returned: "if response: responses.append(response)"
CollectKey ==
    /\ pc = "await_key"
    /\ cl.pc \in {"returned", "raised"}
    /\ IF cl.pc = "raised"
       THEN Raising(cl.err)
       ELSE /\ hr' = [hr EXCEPT !.responses = @ \o cl.result, !.ki = @ + 1]
            /\ pc' = "keys"
            /\ cl' = IdleClient
            /\ UNCHANGED <<duo, fan, mode_structure, model_keys, session, ri, final,
                           saved, err>>

\* a loop that records a round only when it has responses
EndPlainRound_DropsEmptyRound ==
    /\ pc = "keys"
    /\ hr.ki > Len(model_keys)
    /\ hr.type \notin FusedTypes
    /\ IF hr.responses = <<>>
       THEN /\ ri' = ri + 1
            /\ pc' = "loop"
            /\ hr' = IdleHandler
            /\ UNCHANGED <<duo, fan, mode_structure, model_keys, session, final, cl,
                           saved, err>>
       ELSE RoundDone(DebateRound(hr.round_num, hr.responses))

\* the loop over model_keys is over: a plain handler returns its round
EndPlainRound ==
    /\ pc = "keys"
    /\ hr.ki > Len(model_keys)
    /\ hr.type \notin FusedTypes
    /\ RoundDone(DebateRound(hr.round_num, hr.responses))

\* the loop over model_keys is over: a fused handler asks the synthesizer
\* (lines 267-270, 370-373)
StartFusedSynthesis ==
    /\ pc = "keys"
    /\ hr.ki > Len(model_keys)
    /\ hr.type \in FusedTypes
    /\ hr' = [hr EXCEPT !.prompt = NoPrompt]
    /\ cl' = StartCall(Synthesizer)
    /\ pc' = "await_synth"
    /\ UNCHANGED <<duo, fan, mode_structure, model_keys, session, ri, final, saved,
                   err>>

\* a fused round that lists the synthesis before the responses of the keys
CollectFusedSynthesis_SynthesisFirst ==
    /\ pc = "await_synth"
    /\ hr.type \in FusedTypes
    /\ cl.pc \in {"returned", "raised"}
    /\ IF cl.pc = "raised"
       THEN Raising(cl.err)
       ELSE RoundDone(DebateRound(hr.round_num, cl.result \o hr.responses))

\* lines 272-275, 375-378: the synthesis joins the round of the fused handler
CollectFusedSynthesis ==
    /\ pc = "await_synth"
    /\ hr.type \in FusedTypes
    /\ cl.pc \in {"returned", "raised"}
    /\ IF cl.pc = "raised"
       THEN Raising(cl.err)
       ELSE RoundDone(DebateRound(hr.round_num, hr.responses \o cl.result))

\* lines 466-472: the round of final_synthesis, or session.rounds[-1] when
\* the call failed
CollectFinalSynthesis ==
    /\ pc = "await_synth"
    /\ hr.type = "final_synthesis"
    /\ cl.pc \in {"returned", "raised"}
    /\ IF cl.pc = "raised"
       THEN Raising(cl.err)
       ELSE IF cl.result # None
       THEN RoundDone(DebateRound(hr.round_num, cl.result))
       ELSE IF session.rounds = <<>>
       THEN Raising("IndexError")
       ELSE RoundDone(session.rounds[Len(session.rounds)])

\* a final answer taken from the last response of the last round, without a
\* call of its own
StartFallbackSynthesis_FromLastRound ==
    /\ pc = "loop"
    /\ ri > Len(mode_structure)
    /\ mode_structure[Len(mode_structure)].type # "final_synthesis"
    /\ session.rounds # <<>>
    /\ session.rounds[Len(session.rounds)].responses # <<>>
    /\ LET responses == session.rounds[Len(session.rounds)].responses
           last_response == responses[Len(responses)]
       IN final' = Some([answer |-> last_response.content,
                         confidence |->
                             ConfidenceOr(last_response.confidence,
                                          SynthesisDefault),
                         via |-> "synthesis"])
    /\ pc' = "complete"
    /\ UNCHANGED <<duo, fan, mode_structure, model_keys, session, ri, hr, cl, saved,
                   err>>

\* lines 108-111, 484-496: the structure does not end in final_synthesis
StartFallbackSynthesis ==
    /\ pc = "loop"
    /\ ri > Len(mode_structure)
    /\ mode_structure[Len(mode_structure)].type # "final_synthesis"
    /\ cl' = StartCall(Synthesizer)
    /\ pc' = "await_fallback"
    /\ UNCHANGED <<duo, fan, mode_structure, model_keys, session, ri, hr, final, saved,
                   err>>

\* lines 498-507: the synthesis, or the best response of the last round
CollectFallbackSynthesis ==
    /\ pc = "await_fallback"
    /\ cl.pc \in {"returned", "raised"}
    /\ IF cl.pc = "raised"
       THEN Raising(cl.err)
       ELSE IF cl.result = None /\ session.rounds = <<>>
       THEN Raising("IndexError")
       ELSE IF cl.result = None
               /\ session.rounds[Len(session.rounds)].responses = <<>>
       THEN Raising("ValueError")
       ELSE /\ final' =
                 IF cl.result # None
                 THEN Some([answer |-> cl.result[1].content,
                            confidence |->
                                ConfidenceOr(cl.result[1].confidence,
                                             SynthesisDefault),
                            via |-> "synthesis"])
                 ELSE LET best == BestResponse(
                              session.rounds[Len(session.rounds)].responses)
                      IN Some([answer |-> best.content,
                               confidence |->
                                   ConfidenceOr(best.confidence,
                                                BestResponseDefault),
                               via |-> "best_response"])
            /\ pc' = "complete"
            /\ cl' = IdleClient
            /\ UNCHANGED <<duo, fan, mode_structure, model_keys, session, ri, hr, saved,
                           err>>

\* lines 112-116: the structure ends in final_synthesis
TakeLastRound ==
    /\ pc = "loop"
    /\ ri > Len(mode_structure)
    /\ mode_structure[Len(mode_structure)].type = "final_synthesis"
    /\ IF session.rounds = <<>>
       THEN Raising("IndexError")
       ELSE IF session.rounds[Len(session.rounds)].responses = <<>>
       THEN Raising("IndexError")
       ELSE LET last_response ==
                    session.rounds[Len(session.rounds)].responses[1]
            IN /\ final' = Some([answer |-> last_response.content,
                                 confidence |->
                                     ConfidenceOr(last_response.confidence,
                                                  SynthesisDefault),
                                 via |-> "last_round"])
               /\ pc' = "complete"
               /\ UNCHANGED <<duo, fan, mode_structure, model_keys, session, ri, hr, cl,
                              saved, err>>

\* line 120: session.complete(final_answer, final_confidence)
Complete ==
    /\ pc = "complete"
    /\ session' = complete(session, final[1].answer, final[1].confidence)
    /\ pc' = "tokens"
    /\ UNCHANGED <<duo, fan, mode_structure, model_keys, ri, hr, final, cl, saved, err>>

\* lines 123-128: session.total_tokens
SetTotalTokens ==
    /\ pc = "tokens"
    /\ session' = [session EXCEPT !.total_tokens = SumTokens(session.rounds)]
    /\ pc' = "save"
    /\ UNCHANGED <<duo, fan, mode_structure, model_keys, ri, hr, final, cl, saved, err>>

\* a session written before its token total is set
SaveDebate_BeforeTokens ==
    /\ pc = "tokens"
    /\ saved = <<>>
    /\ saved' = Append(saved, session)
    /\ UNCHANGED <<duo, fan, mode_structure, model_keys, session, pc, ri, hr, final,
                   cl, err>>

\* lines 131-138, 540-580: _save_debate writes the session, or logs the error
\* of a failed write; start_debate returns the session
SaveDebate ==
    /\ pc = "save"
    /\ \E written \in BOOLEAN :
          saved' = IF written THEN Append(saved, session) ELSE saved
    /\ pc' = "done"
    /\ UNCHANGED <<duo, fan, mode_structure, model_keys, session, ri, hr, final, cl, err>>

----------------------------------------------------------------------------
(* two start_debate coroutines interleaved at their awaits.  The manager,  *)
(* the client and the configuration are shared and are only read; each     *)
(* run has its locals and its DebateSession, whose rounds list is an       *)
(* object of the heap                                                      *)

IdleDuo == [runs |-> <<>>, heap |-> <<>>]

\* the modes and keys of the two runs: rounds with one call per key
DuoStructures ==
    { Structure(<<"independent_generation">>),
      Structure(<<"independent_generation", "mutual_critique">>) }

DuoKeyLists == { <<"gemini">>, <<"gemini", "chatgpt">> }

\* a rounds list that is the one default object of the class
RoundsRef_SharedDefault(run) == 1

\* DebateSession(...): pydantic copies the default [] of rounds for every
\* instance, so the session of each run holds a list of its own
RoundsRef(run) == run

\* start_debate up to its first await (lines 44-69)
NewRun(run, structure, keys) ==
    [mode_structure |-> structure, model_keys |-> keys,
     rounds |-> RoundsRef(run), pc |-> "loop", ri |-> 1, ki |-> 0,
     responses |-> <<>>, outcomes |-> <<>>,
     final_answer |-> None, final_confidence |-> None,
     completed_at |-> None, total_tokens |-> 0, err |-> ""]

\* what get_response returns to a run: None, or the response to the prompt
\* of that call of that run
Outcomes(run, key, call) ==
    LET text == <<Tok("word", 200 + run), Tok("word", call), Tok("en", 0),
                  Tok("num", 95), Tok("pct", 0)>>
    IN { None, Some(AIResponse(key, text, ExtractConfidence(text), Some(5))) }

\* the rounds list of a run
RoundsOf(r) == duo.heap[r.rounds]

SetRun(run, r) == duo' = [duo EXCEPT !.runs[run] = r]

\* lines 67-96: the next entry is dispatched to its handler
DuoStartRound ==
    /\ \E run \in DOMAIN duo.runs :
          LET r == duo.runs[run]
          IN /\ r.pc = "loop"
             /\ r.ri <= Len(r.mode_structure)
             /\ SetRun(run, [r EXCEPT !.pc = "keys", !.ki = 1,
                                      !.responses = <<>>])
    /\ UNCHANGED <<debate_vars, fan>>

\* lines 154-172: the handler awaits the call of its next key
DuoCallKey ==
    /\ \E run \in DOMAIN duo.runs :
          LET r == duo.runs[run]
          IN /\ r.pc = "keys"
             /\ r.ki <= Len(r.model_keys)
             /\ SetRun(run, [r EXCEPT !.pc = "await_key"])
    /\ UNCHANGED <<debate_vars, fan>>

\* lines 172-179: the call returns to the run that awaits it
DuoKeyReturns ==
    /\ \E run \in DOMAIN duo.runs :
          LET r == duo.runs[run]
          IN /\ r.pc = "await_key"
             /\ \E out \in Outcomes(run, r.model_keys[r.ki],
                                   Len(r.outcomes) + 1) :
                   SetRun(run, [r EXCEPT !.pc = "keys",
                                         !.ki = @ + 1,
                                         !.responses = @ \o out,
                                         !.outcomes = Append(@, out)])
    /\ UNCHANGED <<debate_vars, fan>>

\* lines 181, 105: the handler returns its round and session.add_round
\* appends it to the rounds list of the session
DuoEndRound ==
    /\ \E run \in DOMAIN duo.runs :
          LET r == duo.runs[run]
          IN /\ r.pc = "keys"
             /\ r.ki > Len(r.model_keys)
             /\ duo' = [duo EXCEPT
                          !.runs[run] = [r EXCEPT !.pc = "loop",
                                                  !.ri = @ + 1],
                          !.heap[r.rounds] =
                              Append(@, DebateRound(
                                            r.mode_structure[r.ri].round,
                                            r.responses))]
    /\ UNCHANGED <<debate_vars, fan>>

\* lines 108-111: the loop is over and the run awaits the synthesizer
DuoStartSynthesis ==
    /\ \E run \in DOMAIN duo.runs :
          LET r == duo.runs[run]
          IN /\ r.pc = "loop"
             /\ r.ri > Len(r.mode_structure)
             /\ SetRun(run, [r EXCEPT !.pc = "await_fallback"])
    /\ UNCHANGED <<debate_vars, fan>>

\* lines 498-507, 118-128: the synthesis or the best response of the last
\* round of the session, session.complete and the token total
DuoFinish ==
    /\ \E run \in DOMAIN duo.runs :
          LET r == duo.runs[run]
              rounds == RoundsOf(r)
          IN /\ r.pc = "await_fallback"
             /\ \E out \in Outcomes(run, Synthesizer, Len(r.outcomes) + 1) :
                   LET called == [r EXCEPT !.outcomes = Append(@, out)]
                   IN IF out = None /\ rounds[Len(rounds)].responses = <<>>
                      THEN SetRun(run, [called EXCEPT !.pc = "raised",
                                                      !.err = "ValueError"])
                      ELSE LET best == BestResponse(
                                           rounds[Len(rounds)].responses)
                               answer == IF out # None THEN out[1].content
                                         ELSE best.content
                               confidence ==
                                   IF out # None
                                   THEN ConfidenceOr(out[1].confidence,
                                                     SynthesisDefault)
                                   ELSE ConfidenceOr(best.confidence,
                                                     BestResponseDefault)
                           IN SetRun(run,
                                 [complete(called, answer, confidence)
                                     EXCEPT !.total_tokens = SumTokens(rounds),
                                            !.pc = "done"])
    /\ UNCHANGED <<debate_vars, fan>>

\* two runs after each built its session
InitTwoRuns ==
    /\ mode_structure = <<>>
    /\ model_keys = <<>>
    /\ session = NewSession
    /\ pc = "idle"
    /\ ri = 1
    /\ hr = IdleHandler
    /\ final = None
    /\ cl = IdleClient
    /\ saved = <<>>
    /\ err = ""
    /\ fan = IdleFanOut
    /\ \E s1, s2 \in DuoStructures, k1, k2 \in DuoKeyLists :
          duo = [runs |-> <<NewRun(1, s1, k1), NewRun(2, s2, k2)>>,
                 heap |-> [ref \in {NewRun(1, s1, k1).rounds,
                                    NewRun(2, s2, k2).rounds} |-> <<>>]]

NextTwoRuns ==
    \/ DuoStartRound \/ DuoCallKey \/ DuoKeyReturns \/ DuoEndRound
    \/ DuoStartSynthesis \/ DuoFinish

SpecTwoRuns == InitTwoRuns /\ [][NextTwoRuns]_vars

Init ==
    /\ \E mode \in ModeArgs :
          /\ mode_structure = get_debate_mode(mode)
          /\ session = [NewSession EXCEPT !.mode = mode]
    /\ model_keys \in {ResolveKeys(arg) : arg \in KeyArgs}
    /\ RunCalls(mode_structure, Len(model_keys)) <= MaxCalls
    /\ pc = "loop"
    /\ ri = 1
    /\ hr = IdleHandler
    /\ final = None
    /\ cl = IdleClient
    /\ saved = <<>>
    /\ err = ""
    /\ fan = IdleFanOut
    /\ duo = IdleDuo

Next ==
    \/ StartHandler \/ StartFinalSynthesis \/ SkipUnknownType
    \/ CallNextKey \/ CollectKey \/ EndPlainRound
    \/ StartFusedSynthesis \/ CollectFusedSynthesis \/ CollectFinalSynthesis
    \/ StartFallbackSynthesis \/ CollectFallbackSynthesis \/ TakeLastRound
    \/ Complete \/ SetTotalTokens \/ SaveDebate
    \/ Client

Spec == Init /\ [][Next]_vars

\* the event loop runs the coroutine whenever it can go on, and every HTTP
\* attempt settles: aiohttp ends it with a reply, an error or, after
\* self.timeout seconds, a timeout
SpecLive == Init /\ [][Next]_vars /\ WF_vars(Next)

\* a get_multiple_responses call on its own
InitFanOut ==
    /\ mode_structure = <<>>
    /\ model_keys = <<>>
    /\ session = NewSession
    /\ pc = "idle"
    /\ ri = 1
    /\ hr = IdleHandler
    /\ final = None
    /\ cl = IdleClient
    /\ saved = <<>>
    /\ err = ""
    /\ \E ks \in FanKeyLists : fan = [IdleFanOut EXCEPT !.keys = ks]
    /\ duo = IdleDuo

\* a get_response call on its own, as the bot's question handler makes it
InitGetResponse ==
    /\ mode_structure = <<>>
    /\ model_keys = <<>>
    /\ session = NewSession
    /\ pc = "idle"
    /\ ri = 1
    /\ hr = IdleHandler
    /\ final = None
    /\ \E key \in {Synthesizer, "ghost"} : cl = StartCall(key)
    /\ saved = <<>>
    /\ err = ""
    /\ fan = IdleFanOut
    /\ duo = IdleDuo

NextGetResponse ==
    AttemptOkText \/ AttemptStatus \/ AttemptTimeout \/ AttemptException

SpecGetResponse == InitGetResponse /\ [][NextGetResponse]_vars

NextFanOut ==
    \/ StartGather \/ FanAttemptOk \/ FanAttemptFails
    \/ GatherReturn \/ GatherRaise

SpecFanOut == InitFanOut /\ [][NextFanOut]_vars

----------------------------------------------------------------------------
(* Properties *)

Finishing == {"tokens", "save", "done"}

LastRound == session.rounds[Len(session.rounds)]

LastType == mode_structure[Len(mode_structure)].type

RecognisedStructure ==
    \A i \in DOMAIN mode_structure : mode_structure[i].type \in RoundTypes

RegisteredKeys == \A i \in DOMAIN model_keys : model_keys[i] \in Registry

\* the rounds the handler of a type reads: also the round final_synthesis
\* falls back to
RoundsRead(type) == IF type = "final_synthesis" THEN 1 ELSE RoundsIndexed(type)

\* every entry comes after as many entries as its handler reads rounds
ContextAvailable ==
    \A i \in DOMAIN mode_structure : RoundsRead(mode_structure[i].type) <= i - 1

\* the loop is over and its final_synthesis call returned no response: the
\* round it recorded does not carry the number of the final_synthesis entry
FinalSynthesisFailed ==
    /\ pc # "raised"
    /\ ri > Len(mode_structure)
    /\ LastType = "final_synthesis"
    /\ LastRound.round_number # mode_structure[Len(mode_structure)].round

\* the rank of a response in the choice of the best one: its confidence, an
\* absent one being the lowest
Rank(r) == IF r.confidence = None THEN 0 ELSE r.confidence[1]

IsFirstMax(responses, i) ==
    \A j \in 1..Len(responses) :
        /\ Rank(responses[j]) <= Rank(responses[i])
        /\ j < i => Rank(responses[j]) < Rank(responses[i])

\* the tokens of the responses at the given (round, response) places
RECURSIVE TokensAt(_, _)
TokensAt(rounds, places) ==
    IF places = {} THEN 0
    ELSE LET p == CHOOSE q \in places : TRUE
             t == rounds[p[1]].responses[p[2]].tokens_used
         IN (IF t = None THEN 0 ELSE t[1]) + TokensAt(rounds, places \ {p})

TokensIn(rounds) ==
    TokensAt(rounds, {<<i, j>> \in (1..Len(rounds)) \X (1..MaxCalls + 1) :
                          j <= Len(rounds[i].responses)})

\* C1: in every state of a run of start_debate, also one that raised,
\* completed_at and final_answer are both absent or both present.
C1_CompletedIffAnswered ==
    (session.completed_at = None) <=> (session.final_answer = None)

C1_Completed ==
    /\ pc = "done"
    /\ session.completed_at # None
    /\ session.final_answer # None

\* C2: on a structure of recognised round types whose handlers find the
\* rounds they read, with registered keys, no pattern of failed backend calls
\* makes start_debate raise (only a reply of unexpected shape does).
C2_NoCallFailureAborts ==
    (RecognisedStructure /\ RegisteredKeys /\ ContextAvailable /\ pc = "raised")
        => err \in {"TypeError", "AttributeError"}

\* C3: when the structure does not end in final_synthesis and the fallback
\* synthesis call failed, final_answer is the content of the response of the
\* last recorded round with the highest confidence, the first of them on a tie.
C3_BestResponseIsFirstMax ==
    (pc \in {"complete"} \cup Finishing /\ final[1].via = "best_response")
        => /\ LastType # "final_synthesis"
           /\ \E i \in 1..Len(LastRound.responses) :
                 /\ IsFirstMax(LastRound.responses, i)
                 /\ final[1].answer = LastRound.responses[i].content
                 /\ pc \in Finishing =>
                       session.final_answer
                           = Some(LastRound.responses[i].content)

C3_TieChosen ==
    /\ pc = "done"
    /\ final[1].via = "best_response"
    /\ \E i, j \in 1..Len(LastRound.responses) :
          /\ i < j
          /\ IsFirstMax(LastRound.responses, i)
          /\ Rank(LastRound.responses[j]) = Rank(LastRound.responses[i])
          /\ Rank(LastRound.responses[i]) > 0
          /\ LastRound.responses[j].content # LastRound.responses[i].content

\* C4: on a structure numbering its rounds 1..N, whatever calls fail (the
\* final_synthesis call too), rounds[i].round_number is i+1 (counting i from
\* 0) and so strictly increases.
C4_RoundNumbersConsecutive ==
    RecognisedStructure
        => \A i \in 1..Len(session.rounds) : session.rounds[i].round_number = i

\* C5: when the final_synthesis call fails, the session ends one round short:
\* session.rounds holds one entry fewer than the structure and the round
\* before final_synthesis appears once.
C5_FailedSynthesisOneRoundShort ==
    (RecognisedStructure /\ FinalSynthesisFailed)
        => /\ Len(session.rounds) = Len(mode_structure) - 1
           /\ Cardinality({i \in 1..Len(session.rounds) :
                               session.rounds[i] = LastRound}) = 1

\* C6: when the structure ends in final_synthesis, the last round holds the
\* synthesizer's response alone, final_answer is its content and
\* final_confidence its confidence, or 85 when it has none, whether or not
\* the final_synthesis call succeeded.
C6_FinalSynthesisIsAnswer ==
    (LastType = "final_synthesis" /\ pc \in Finishing)
        => /\ Len(LastRound.responses) = 1
           /\ LastRound.round_number = mode_structure[Len(mode_structure)].round
           /\ LastRound.responses[1].model_key = Synthesizer
           /\ session.final_answer = Some(LastRound.responses[1].content)
           /\ session.final_confidence =
                 IF LastRound.responses[1].confidence = None
                 THEN Some(SynthesisDefault)
                 ELSE LastRound.responses[1].confidence

\* C7: when start_debate saves and returns the session, total_tokens is the
\* sum of tokens_used (an absent one counting 0) over every response of
\* every round; what is written holds the same sum.
C7_TotalTokensIsSum ==
    pc \in {"save", "done"}
        => /\ session.total_tokens = TokensIn(session.rounds)
           /\ saved # None => /\ saved[1].total_tokens = TokensIn(saved[1].rounds)
                              /\ saved[1].rounds = session.rounds

C7_TokensOfSeveralRounds ==
    /\ pc = "done"
    /\ saved # None
    /\ Len(session.rounds) >= 2
    /\ \A i \in 1..Len(session.rounds) :
          TokensIn(<<session.rounds[i]>>) > 0
    /\ session.total_tokens > TokensIn(<<LastRound>>)

\* C8: one _make_request issues at most retry_attempts HTTP attempts, goes on
\* after a failed attempt that is not the last, stops at the first reply and
\* returns it, and returns None exactly when retry_attempts attempts failed.
C8_BoundedRetries ==
    /\ cl.posts <= retry_attempts
    /\ cl.pc = "request"
          => /\ cl.posts < retry_attempts
             /\ cl.posts > 0 => cl.last \in FailKinds
    /\ (cl.last \in FailKinds /\ cl.posts < retry_attempts) => cl.pc = "request"
    /\ cl.last = "ok" => cl.pc \in {"returned", "raised"} /\ cl.body # None
    /\ (cl.pc \in {"returned", "raised"} /\ cl.key \in Registry)
          => (cl.body = None
                 <=> (cl.posts = retry_attempts /\ cl.last \in FailKinds))

C8_ReplyOnLastAttempt ==
    /\ cl.pc = "returned"
    /\ cl.posts = retry_attempts
    /\ cl.body # None
    /\ cl.result # None

\* C9: a get_response whose attempts all fail (timeout, other status,
\* transport error, malformed body) returns None and raises nothing.
C9_FailuresReturnNone ==
    cl.last \in FailKinds
        => /\ cl.pc \in {"request", "returned"}
           /\ cl.result = None
           /\ cl.err = ""
           /\ pc # "raised"

C9_AllAttemptsFailed ==
    /\ cl.pc = "returned"
    /\ cl.last = "malformed"
    /\ cl.posts = retry_attempts
    /\ cl.result = None
    /\ pc = "await_key"

\* C10: a status-200 reply of unexpected shape (no choices, a first choice
\* without message, a message without content or with a null content, no
\* usage) makes get_response return an AIResponse, with the empty string for
\* a missing content and 0 for missing tokens, and raise nothing.
UnexpectedContent(body) ==
    \/ body.choices = <<>>
    \/ body.choices[1].message = "missing"
    \/ body.choices[1].message = "dict" /\ body.choices[1].content # "str"

\* a further shape, outside C10: the first choice's message is null
NullMessage(body) == body.choices # <<>> /\ body.choices[1].message = "null"

C10_UnexpectedShapeIsEmpty ==
    (cl.body # None /\ ~NullMessage(cl.body[1]))
        => /\ cl.pc = "returned"
           /\ cl.result # None
           /\ UnexpectedContent(cl.body[1]) => cl.result[1].content = <<>>
           /\ cl.body[1].usage = None => cl.result[1].tokens_used = Some(0)

----------------------------------------------------------------------------
(* get_multiple_responses *)

\* the keys of the running fan-out whose call returned a response
Succeeded == { i \in DOMAIN fan.calls : fan.calls[i].result # None }

\* the p-th succeeding key in the order of model_keys
NthSucceeded(p) ==
    CHOOSE i \in Succeeded : Cardinality({ j \in Succeeded : j < i }) = p - 1

\* the position at which the call of key i completed
CompletedAt(i) == CHOOSE p \in DOMAIN fan.order : fan.order[p] = i

\* C11: what get_multiple_responses returns is exactly the responses of the
\* calls that succeeded, in the order of the input keys whatever the order
\* in which the calls completed; a failed call is dropped, and when every
\* call failed the result is empty
C11_SuccessesInKeyOrder ==
    fan.pc = "returned" =>
        /\ Len(fan.result) = Cardinality(Succeeded)
        /\ \A p \in DOMAIN fan.result :
              fan.result[p] = fan.calls[NthSucceeded(p)].result[1]

\* two calls succeeded, the later key's first, and a third call failed
C11_CompletedOutOfOrder ==
    /\ fan.pc = "returned"
    /\ Len(fan.keys) = 3
    /\ Len(fan.result) = 2
    /\ \E i, j \in Succeeded : i < j /\ CompletedAt(j) < CompletedAt(i)

\* C12: get_multiple_responses returns only when the call of every key has
\* settled: no call is still between attempts when it returns
C12_ReturnsAfterAllSettled ==
    fan.pc = "returned" =>
        \A i \in DOMAIN fan.calls :
            /\ fan.calls[i].pc = "returned"
            /\ i \in Succeeded \/ fan.calls[i].key \notin Registry
                 \/ fan.calls[i].posts = retry_attempts

\* one call succeeded on its first attempt and completed first; another
\* went through all its attempts and failed before the join returned
C12_JoinWaitedForRetries ==
    /\ fan.pc = "returned"
    /\ \E i, j \in DOMAIN fan.calls :
          /\ i \in Succeeded /\ fan.calls[i].posts = 1
          /\ j \notin Succeeded /\ fan.calls[j].posts = retry_attempts
          /\ CompletedAt(i) < CompletedAt(j)


----------------------------------------------------------------------------
(* the calls of one round *)

\* a handler with one call per key is running
InKeyLoop == pc \in {"keys", "await_key"}

\* the call of the k-th key of the running round has been started
CallStarted(k) == k < hr.ki \/ (k = hr.ki /\ pc = "await_key")

\* the call of the k-th key of the running round has settled
CallSettled(k) == k < hr.ki \/ (k = hr.ki /\ pc = "await_key" /\ Settled(cl))

\* C13: within one round the calls of all keys are started concurrently: when
\* the call of one key has settled, the call of every other key of the round
\* has been started
C13_CallsOfRoundStartedTogether ==
    (InKeyLoop /\ RegisteredKeys) =>
        \A j, k \in DOMAIN model_keys :
            (j # k /\ CallSettled(j)) => CallStarted(k)


----------------------------------------------------------------------------
(* the order of the rounds *)

\* a round handler is running
InHandler == pc \in {"keys", "await_key", "await_synth"}

\* the entries before entry i that start_debate dispatches to a handler
RecognisedBefore(i) ==
    { j \in 1..(i - 1) : mode_structure[j].type \in RoundTypes }

\* C14: the rounds are dispatched in structure order and do not overlap: the
\* running handler is the one of the current entry, every earlier recognised
\* entry has its round recorded already, and a backend call in flight belongs
\* to that handler or, after the last entry, to the final synthesis
C14_RoundsInOrderNoOverlap ==
    /\ InHandler =>
          /\ ri \in DOMAIN mode_structure
          /\ hr.type = mode_structure[ri].type
          /\ hr.round_num = mode_structure[ri].round
          /\ Len(session.rounds) = Cardinality(RecognisedBefore(ri))
    /\ cl.pc # "idle" =>
          \/ pc \in {"await_key", "await_synth"}
          \/ pc = "await_fallback" /\ ri = Len(mode_structure) + 1

\* a call of the third entry's round is retrying with two rounds recorded
C14_ThirdRoundCalling ==
    /\ pc = "await_key"
    /\ ri = 3
    /\ cl.pc = "request"
    /\ cl.posts > 0
    /\ Len(session.rounds) = 2


----------------------------------------------------------------------------
(* the quick mode with two backends *)

\* a returned run of [independent_generation, critique_and_synthesis] with
\* the two registered backends
QuickRun ==
    /\ mode_structure =
         Structure(<<"independent_generation", "critique_and_synthesis">>)
    /\ model_keys = <<"gemini", "chatgpt">>
    /\ pc = "done"

\* every call of the run succeeded: both answers, both critiques and the
\* synthesis of round 2 are recorded and the call of _synthesize_final_answer
\* returned a response
QuickAllSucceeded ==
    /\ Len(session.rounds[1].responses) = 2
    /\ Len(session.rounds[2].responses) = 3
    /\ final[1].via = "synthesis"

\* the text is the reply to the prompt of _synthesize_final_answer
AnswersFinalPrompt(text) == text # <<>> => Head(text) = Tok("word", 100)

----------------------------------------------------------------------------
(* a round whose calls all failed *)

\* the run is at its second entry, whose handler reads the last recorded
\* round only, after an independent_generation round
AtSecondEntry ==
    /\ Len(mode_structure) >= 2
    /\ mode_structure[1].type = "independent_generation"
    /\ mode_structure[2].type \in {"mutual_critique", "critique_and_synthesis",
                                   "final_synthesis"}
    /\ ri = 2

\* the exceptions get_response raises on a reply with a null message or a
\* null content
ReplyShapeErrors == {"AttributeError", "TypeError"}

\* C16: when every call of round 1 failed, round 1 is recorded with an empty
\* responses sequence, and the handler of the next round builds its context
\* from the empty set and runs its own calls without raising for it: the
\* only exceptions are those of a reply to one of its own calls
C16_EmptyRoundTolerated ==
    /\ (mode_structure[1].type = "independent_generation" /\ ri >= 2) =>
          /\ Len(session.rounds) >= 1
          /\ session.rounds[1].round_number = 1
    /\ (AtSecondEntry /\ session.rounds[1].responses = <<>>) =>
          /\ InHandler => hr.context = <<>>
          /\ pc = "raised" => err \in ReplyShapeErrors

\* round 1 is recorded empty and the round after it holds responses
C16_RoundAfterEmptyRound ==
    /\ Len(session.rounds) >= 2
    /\ mode_structure[2].type = "mutual_critique"
    /\ session.rounds[1] = DebateRound(1, <<>>)
    /\ session.rounds[2].responses # <<>>


----------------------------------------------------------------------------
(* the number of recorded rounds *)

\* the structure entries start_debate dispatches to a handler
Dispatched == RecognisedBefore(Len(mode_structure) + 1)

\* C17: after a run that returns, the session holds one round per structure
\* entry dispatched to a handler: an entry of unrecognised type contributes
\* none, a recognised entry exactly one, also when all its calls failed
C17_OneRoundPerDispatchedEntry ==
    pc = "done" => Len(session.rounds) = Cardinality(Dispatched)

\* a returned run over a structure with an unrecognised entry, one of whose
\* rounds has no response
C17_ReturnedWithSkippedEntryAndEmptyRound ==
    /\ pc = "done"
    /\ Cardinality(Dispatched) < Len(mode_structure)
    /\ \E i \in DOMAIN session.rounds : session.rounds[i].responses = <<>>


----------------------------------------------------------------------------
(* the lifecycle of the session *)

\* what a written session must be: the only one, written by a run that is
\* over, complete, with its token total, and equal to the session returned
WrittenLast ==
    /\ Len(saved) <= 1
    /\ saved # <<>> =>
          /\ pc = "done"
          /\ saved[1] = session
          /\ session.completed_at # None
          /\ session.final_answer # None
          /\ session.total_tokens = TokensIn(session.rounds)

\* a step of a complete session leaves its rounds and its result alone
CompleteOnce ==
    session.completed_at # None =>
        /\ session'.completed_at = session.completed_at
        /\ session'.final_answer = session.final_answer
        /\ session'.final_confidence = session.final_confidence
        /\ session'.rounds = session.rounds

\* a step after the write changes neither the session nor what was written
FrozenAfterWrite == saved # <<>> => (session' = session /\ saved' = saved)

\* C18: the session is marked complete once; it is written at most once, and
\* only after it was marked complete and its total_tokens was set; no round
\* is appended and no result field changes after it was written
C18_CompleteOnceWrittenLast ==
    /\ [](WrittenLast /\ (pc = "done" => session.completed_at # None))
    /\ [][CompleteOnce]_vars
    /\ [][FrozenAfterWrite]_vars

\* a session of several rounds with tokens was written
C18_WrittenWithTokens ==
    /\ saved # <<>>
    /\ Len(saved[1].rounds) >= 2
    /\ saved[1].total_tokens > 0


----------------------------------------------------------------------------
(* a failed write, an unknown key *)

\* C19: a failure to write the session is reported to the caller of
\* start_debate: a run returns its session normally only when the session
\* was written
C19_WriteFailureReported == pc = "done" => saved # <<>>

\* C20: a key of model_keys that names no backend of the registry is
\* skipped: it makes no round handler raise
C20_UnknownKeySkipped ==
    ~RegisteredKeys => ~(pc = "raised" /\ err = "KeyError")


----------------------------------------------------------------------------
(* get_response with an unknown key *)

\* C21: get_response called with a key the registry does not know returns
\* None without any HTTP attempt and without raising
C21_UnknownKeyReturnsNone ==
    \A i \in DOMAIN fan.calls :
        fan.calls[i].key \notin Registry =>
            /\ fan.calls[i].pc = "returned"
            /\ fan.calls[i].result = None
            /\ fan.calls[i].posts = 0
            /\ fan.calls[i].sleeps = 0
            /\ fan.calls[i].err = ""

\* the call for an unknown key is over while a call for a registered key
\* is at its second attempt
C21_UnknownKeyAmongRetries ==
    \E i, j \in DOMAIN fan.calls :
        /\ fan.calls[i].key \notin Registry
        /\ fan.calls[i].pc = "returned"
        /\ fan.calls[j].pc = "request"
        /\ fan.calls[j].posts = 1


----------------------------------------------------------------------------
(* the prompts of the critique and improvement rounds *)

\* the key whose call is running
CallingKey == model_keys[hr.ki]

\* the model keys of the blocks a prompt quotes
QuotedKeys(prompt) ==
    { prompt.responses[i].model_key : i \in DOMAIN prompt.responses }

\* the call of a key is running in a critique round
CritiqueCall ==
    /\ pc = "await_key"
    /\ hr.type \in {"mutual_critique", "critique_and_synthesis"}

\* C22: in a mutual_critique round the prompt sent to backend k quotes the
\* prior-round responses of all other backends and does not quote the
\* prior-round response of backend k
C22_CritiquePromptExcludesOwn ==
    CritiqueCall =>
        /\ hr.prompt.responses =
             format_responses_for_context(OthersOf(LastRound.responses,
                                                   CallingKey))
        /\ CallingKey \notin QuotedKeys(hr.prompt)

\* the call of a key is running in an improvement round
ImprovementCall ==
    /\ pc = "await_key"
    /\ hr.type \in {"improvement", "improvement_and_synthesis"}

\* C23: in an improvement round the prompt sent to backend k carries backend
\* k's own round-1 content when round 1 holds one, the critiques of round 2
\* of every other backend, in order, and no critique written by backend k
C23_ImprovementPromptOwnAndOthers ==
    ImprovementCall =>
        /\ \A i \in DOMAIN session.rounds[1].responses :
              session.rounds[1].responses[i].model_key = CallingKey =>
                  hr.prompt.your_previous_response =
                      Some(session.rounds[1].responses[i].content)
        /\ CallingKey \notin QuotedKeys(hr.prompt)
        /\ \A i \in DOMAIN session.rounds[2].responses :
              session.rounds[2].responses[i].model_key # CallingKey =>
                  \E j \in DOMAIN hr.prompt.responses :
                      /\ hr.prompt.responses[j].model_key =
                           session.rounds[2].responses[i].model_key
                      /\ hr.prompt.responses[j].content =
                           session.rounds[2].responses[i].content
        /\ Len(hr.prompt.responses) =
             Cardinality({ i \in DOMAIN session.rounds[2].responses :
                             session.rounds[2].responses[i].model_key
                                 # CallingKey })

\* an improvement call of a backend that answered round 1, after a round 2
\* with the critiques of both backends
C23_ImprovingAfterTwoCritiques ==
    /\ ImprovementCall
    /\ cl.pc = "request"
    /\ hr.prompt.your_previous_response # None
    /\ Len(session.rounds[2].responses) = 2
    /\ Len(hr.prompt.responses) = 1


----------------------------------------------------------------------------
(* a mode name the registry does not know *)

\* C24: start_debate called with a mode name that config.debate_modes does
\* not hold runs the round structure of the 'standard' mode: its handlers
\* are those of the entries of that structure
C24_UnknownModeRunsStandard ==
    session.mode \notin DOMAIN debate_modes =>
        /\ mode_structure = debate_modes["standard"]
        /\ InHandler => hr.type = debate_modes["standard"][ri].type
        /\ pc = "done" => Len(session.rounds) = Len(debate_modes["standard"])

\* a run started with an unknown mode name returned the three rounds of the
\* standard mode
C24_UnknownModeReturned ==
    /\ session.mode = "turbo"
    /\ pc = "done"
    /\ Len(session.rounds) = 3
    /\ session.rounds[3].responses # <<>>


----------------------------------------------------------------------------
(* the confidence of a response *)

\* pattern p matches somewhere in the text
HasMatch(text, p) ==
    \E i \in 1..Len(text) : MatchesAt(text, i, Patterns[p].toks)

\* the number pattern p captures at its leftmost match
Captured(text, p) ==
    LET at == CHOOSE i \in 1..Len(text) :
                 /\ MatchesAt(text, i, Patterns[p].toks)
                 /\ \A j \in 1..(i - 1) : ~MatchesAt(text, j, Patterns[p].toks)
    IN text[at + Patterns[p].group - 1].v

\* 'Confidence: 73%', 'Уверенность: 40%', and the first followed by the
\* second
Confidence73 == <<Tok("en", 0), Tok("num", 73), Tok("pct", 0)>>
Uverennost40 == <<Tok("ru", 0), Tok("num", 40), Tok("pct", 0)>>

\* C25: the confidence of a response is the number captured by the first
\* pattern, in the fixed order of the patterns, that matches anywhere in the
\* content; a content no pattern matches has no confidence.  'Confidence:
\* 73%' gives 73, 'Уверенность: 40%' gives 40, and a content holding both
\* gives 40, the value of the pattern of higher priority
C25_FirstPatternInPriorityOrder ==
    cl.result # None =>
        LET text == cl.result[1].content
            confidence == cl.result[1].confidence
        IN /\ \A p \in DOMAIN Patterns :
                 (HasMatch(text, p) /\ \A q \in 1..(p - 1) : ~HasMatch(text, q))
                     => confidence = Some(Captured(text, p))
           /\ (\A p \in DOMAIN Patterns : ~HasMatch(text, p))
                 => confidence = None
           /\ text = Confidence73 => confidence = Some(73)
           /\ text = Uverennost40 => confidence = Some(40)
           /\ text = Confidence73 \o Uverennost40 => confidence = Some(40)

\* a response whose content states 73 under the English label before 40
\* under the Russian one
C25_TwoLabelsInText ==
    /\ cl.result # None
    /\ cl.result[1].content = Confidence73 \o Uverennost40
    /\ cl.result[1].confidence = Some(40)

\* C26: the confidence of every AIResponse the client creates is absent or
\* within 0..100, whatever number the reply text holds before the percent
\* sign
C26_ConfidenceWithinRange ==
    cl.result # None =>
        \/ cl.result[1].confidence = None
        \/ cl.result[1].confidence[1] \in 0..100


----------------------------------------------------------------------------
(* two interleaved runs *)

\* the response carries the mark of the calls of the run
ProducedBy(response, run) == Head(response.content) = Tok("word", 200 + run)

\* the session a run holds
SessionOf(r) ==
    [rounds |-> RoundsOf(r), final_answer |-> r.final_answer,
     final_confidence |-> r.final_confidence,
     completed_at |-> r.completed_at, total_tokens |-> r.total_tokens]

\* the rounds a run records when it runs alone and its calls return outs:
\* entry e holds the responses among the e-th group of one outcome per key
RECURSIVE AloneRounds(_, _, _, _)
AloneRounds(structure, n, outs, e) ==
    IF e > Len(structure) THEN <<>>
    ELSE <<DebateRound(structure[e].round,
                       NotNone(SubSeq(outs, (e - 1) * n + 1, e * n)))>>
         \o AloneRounds(structure, n, outs, e + 1)

\* the session a run returns when it runs alone and its calls return outs,
\* the last of them to the synthesizer call
AloneSession(structure, keys, outs) ==
    LET rounds == AloneRounds(structure, Len(keys), outs, 1)
        synthesis == outs[Len(outs)]
        last == rounds[Len(rounds)].responses
        best == BestResponse(last)
    IN [rounds |-> rounds,
        final_answer |-> IF synthesis # None THEN Some(synthesis[1].content)
                         ELSE Some(best.content),
        final_confidence |->
            IF synthesis # None
            THEN Some(ConfidenceOr(synthesis[1].confidence, SynthesisDefault))
            ELSE Some(ConfidenceOr(best.confidence, BestResponseDefault)),
        completed_at |-> Some("now"),
        total_tokens |-> TokensIn(rounds)]

\* C27: two start_debate runs interleaved at their awaits do not interfere:
\* the rounds of each session hold only responses of that run's own calls,
\* and the session a run returns is the one it returns when it runs alone
\* with the same call outcomes
C27_RunsDoNotInterfere ==
    \A run \in DOMAIN duo.runs :
        LET r == duo.runs[run]
        IN /\ \A i \in DOMAIN RoundsOf(r) :
                 \A j \in DOMAIN RoundsOf(r)[i].responses :
                     ProducedBy(RoundsOf(r)[i].responses[j], run)
           /\ Len(RoundsOf(r)) = r.ri - 1
           /\ r.pc = "done" =>
                 SessionOf(r) = AloneSession(r.mode_structure, r.model_keys,
                                             r.outcomes)

\* both runs returned, each with two rounds that hold responses
C27_BothReturned ==
    /\ duo.runs # <<>>
    /\ \A run \in DOMAIN duo.runs :
          /\ duo.runs[run].pc = "done"
          /\ Len(RoundsOf(duo.runs[run])) = 2
          /\ \A i \in 1..2 : RoundsOf(duo.runs[run])[i].responses # <<>>


----------------------------------------------------------------------------
(* the last-resort fallback *)

\* the final answer is the best response of the last round
BestResponseChosen ==
    /\ pc \in Finishing \cup {"complete"}
    /\ final[1].via = "best_response"

\* C28: in the last-resort fallback final_confidence is the chosen
\* response's own confidence whenever it has one, 0 included, and 80 only
\* when the chosen response has no confidence
C28_FallbackKeepsOwnConfidence ==
    BestResponseChosen =>
        LET best == BestResponse(LastRound.responses)
        IN final[1].confidence =
               IF best.confidence # None THEN best.confidence[1]
               ELSE BestResponseDefault

----------------------------------------------------------------------------
(* the fused rounds *)

\* the synthesizer call of a fused round is awaited
FusedSynthesisAwaited == pc = "await_synth" /\ hr.type \in FusedTypes

\* the step that ends a fused round records the responses of the keys
\* followed by the synthesis, or by nothing when the synthesis failed
FusedRoundRecorded ==
    (FusedSynthesisAwaited /\ pc' = "loop") =>
        /\ session'.rounds =
             Append(session.rounds,
                    DebateRound(hr.round_num, hr.responses \o cl.result))
        /\ ri' = ri + 1

\* C29: in a critique_and_synthesis or improvement_and_synthesis round the
\* calls of the keys come first and one synthesizer call follows them; its
\* response becomes the last response of the same round, and when it fails
\* the round is recorded with the responses of the keys only
C29_FusedRoundThenSynthesis ==
    /\ [](FusedSynthesisAwaited =>
             /\ hr.ki = Len(model_keys) + 1
             /\ cl.key = Synthesizer
             /\ Len(session.rounds) = Cardinality(RecognisedBefore(ri)))
    /\ [][FusedRoundRecorded]_vars

\* the fused round of a run with the one key gemini is recorded with the
\* critique of gemini and no synthesis
C29_FusedRoundWithoutSynthesis ==
    /\ pc = "loop"
    /\ model_keys = <<"gemini">>
    /\ Len(session.rounds) = 2
    /\ mode_structure[2].type = "critique_and_synthesis"
    /\ Len(session.rounds[2].responses) = 1
    /\ session.rounds[2].responses[1].model_key = "gemini"


----------------------------------------------------------------------------
(* the waits of _make_request *)

\* C30: the wait between attempts is the same retry_delay every time and
\* follows only a failed attempt that is not the last one: no wait precedes
\* the first attempt or follows a success, and a call whose retry_attempts
\* attempts all failed has waited retry_attempts - 1 times
C30_FixedWaitBetweenAttempts ==
    (cl.pc # "idle" /\ cl.key \in Registry) =>
        /\ cl.waited = cl.sleeps * retry_delay
        /\ cl.posts = 0 => cl.sleeps = 0
        /\ cl.pc = "request" => cl.sleeps = cl.posts
        /\ cl.last = "ok" => cl.sleeps = cl.posts - 1
        /\ (cl.pc = "returned" /\ cl.last # "ok") =>
              /\ cl.posts = retry_attempts
              /\ cl.sleeps = retry_attempts - 1

\* a call failed all its attempts and waited between them
C30_WaitedBetweenAllAttempts ==
    /\ cl.pc = "returned"
    /\ cl.last # "ok"
    /\ cl.posts = retry_attempts
    /\ cl.waited = (retry_attempts - 1) * retry_delay


----------------------------------------------------------------------------
(* termination *)

\* C31: when every HTTP attempt settles, a start_debate run over a finite
\* structure and key list finishes: it returns the completed session or it
\* raises, and does not wait forever on a backend
C31_RunFinishes == <>(pc \in {"done", "raised"})

\* a run returned after one of its calls had failed all its attempts
C31_ReturnedAfterExhaustedCall ==
    /\ pc = "done"
    /\ session.completed_at # None
    /\ \E i \in DOMAIN session.rounds :
          Len(session.rounds[i].responses) < Len(model_keys)


----------------------------------------------------------------------------
(* who changes the session *)

\* a step taken while a handler runs leaves the session alone, or ends the
\* handler and appends the round the handler built: a round with the number
\* of its entry
HandlerFrame ==
    InHandler =>
        \/ session' = session
        \/ /\ pc' = "loop"
           /\ Len(session'.rounds) = Len(session.rounds) + 1
           /\ SubSeq(session'.rounds, 1, Len(session.rounds)) = session.rounds
           /\ session'.rounds[Len(session'.rounds)].round_number
                = hr.round_num
           /\ [session' EXCEPT !.rounds = <<>>]
                = [session EXCEPT !.rounds = <<>>]

\* C32: only start_debate changes the session: while a round handler runs,
\* session.rounds and the responses of the recorded rounds stay as they
\* are, and the handler returns a round it built, which start_debate appends
C32_HandlerReturnsNewRound == [][HandlerFrame]_vars


----------------------------------------------------------------------------
(* the generation hints of a request *)

\* C33: the request carries the reasoning-effort and the verbosity hint only
\* when the configuration of the backend defines them; for a backend that
\* defines neither, the request carries no hint field
C33_HintsOnlyWhenConfigured ==
    (cl.request # None) =>
        /\ cl.request[1].reasoning_effort # None
             => models[cl.key].reasoning # None
        /\ cl.request[1].verbosity # None
             => models[cl.key].verbosity # None


----------------------------------------------------------------------------
(* the rounds a handler reads *)

\* C34: whatever the order of the recognised and unrecognised entries of the
\* structure, a handler that reads earlier rounds runs only when the session
\* holds them, so start_debate never indexes a round that is not there
C34_NeverIndexesMissingRound == err # "IndexError"


----------------------------------------------------------------------------
(* the synthesizer call after a fused last round *)

\* the loop is over, the structure ends in a fused round, and the call of
\* _synthesize_final_answer returned a response
FusedThenSynthesis ==
    /\ pc \in Finishing
    /\ LastType \in FusedTypes
    /\ final[1].via = "synthesis"

\* no recorded response is the reply to the prompt of _synthesize_final_answer
InNoRound ==
    \A i \in DOMAIN session.rounds :
        \A j \in DOMAIN session.rounds[i].responses :
            LET text == session.rounds[i].responses[j].content
            IN text = <<>> \/ Head(text) # Tok("word", 100)

\* C35: when the structure ends in a fused round, start_debate still makes
\* one more synthesizer call after it; when that call succeeds final_answer
\* is its content and final_confidence its confidence, 85 when it has none,
\* and its response is in no round and its tokens are not in total_tokens
C35_SeparateSynthesisAfterFusedRound ==
    (pc \in Finishing /\ LastType \in FusedTypes) =>
        /\ final[1].via \in {"synthesis", "best_response"}
        /\ FusedThenSynthesis =>
              /\ session.final_answer = Some(final[1].answer)
              /\ AnswersFinalPrompt(final[1].answer)
              /\ session.final_confidence =
                    IF ExtractConfidence(final[1].answer) = None
                    THEN Some(SynthesisDefault)
                    ELSE ExtractConfidence(final[1].answer)
              /\ InNoRound
              /\ pc \in {"save", "done"} =>
                    session.total_tokens = TokensIn(session.rounds)


----------------------------------------------------------------------------
(* a response without a confidence in the last-resort selection *)

\* the confidence of the response whose content became the answer
ChosenConfidence == ExtractConfidence(final[1].answer)

\* C36: in the last-resort selection a response without a confidence ranks
\* as 0: it is never chosen when some response of the last round has a
\* positive confidence, and it is chosen, as the first of the responses,
\* only when no response has a positive confidence
C36_AbsentConfidenceRanksZero ==
    BestResponseChosen =>
        LET rs == LastRound.responses
        IN /\ (\E j \in 1..Len(rs) : Rank(rs[j]) > 0) =>
                 /\ ChosenConfidence # None
                 /\ \A j \in 1..Len(rs) : Rank(rs[j]) <= ChosenConfidence[1]
           /\ ChosenConfidence = None =>
                 /\ \A j \in 1..Len(rs) : Rank(rs[j]) = 0
                 /\ final[1].answer = rs[1].content

\* a response without a confidence was chosen over a later response that
\* states a confidence of 0
C36_AbsentChosenOverLaterZero ==
    /\ BestResponseChosen
    /\ pc = "done"
    /\ Len(LastRound.responses) >= 2
    /\ LastRound.responses[1].confidence = None
    /\ LastRound.responses[2].confidence = Some(0)
    /\ session.final_answer = Some(LastRound.responses[1].content)
    /\ LastRound.responses[2].content # LastRound.responses[1].content


----------------------------------------------------------------------------
(* an improvement call for a key without a first-round response *)

\* the improvement handler is about to call a registered key that has no
\* response in the first recorded round
ImprovingWithoutPrevious ==
    /\ pc = "keys"
    /\ hr.type \in {"improvement", "improvement_and_synthesis"}
    /\ hr.ki <= Len(model_keys)
    /\ CallingKey \in Registry
    /\ FirstOf(session.rounds[1].responses, CallingKey) = None

\* the step from there starts the call of that key, with the placeholder
\* (None) as its previous response
CalledWithPlaceholder ==
    ImprovingWithoutPrevious =>
        /\ pc' = "await_key"
        /\ hr'.ki = hr.ki
        /\ cl'.key = CallingKey
        /\ cl'.pc = "request"
        /\ hr'.prompt.template = "round_3_improvement"
        /\ hr'.prompt.your_previous_response = None

\* C37: in an improvement round a backend that has no response in the first
\* recorded round is still called, with the fixed placeholder in place of
\* its previous answer; it is neither skipped nor does the handler raise
C37_CalledWithPlaceholder == [][CalledWithPlaceholder]_vars

\* a run returned whose improvement round holds the response of a key that
\* has none in the first round
C37_ImprovedWithoutPrevious ==
    /\ pc = "done"
    /\ Len(session.rounds) >= 3
    /\ mode_structure[3].type \in {"improvement", "improvement_and_synthesis"}
    /\ \E j \in DOMAIN session.rounds[3].responses :
          FirstOf(session.rounds[1].responses,
                  session.rounds[3].responses[j].model_key) = None


----------------------------------------------------------------------------
(* DebateManager of debate_manager_v1_backup: round 1, then rounds 2..N,   *)
(* every round one get_multiple_responses call, then the final synthesis   *)

\* DebateModeConfig.rounds of each mode of the configuration
v1_debate_modes == [empty |-> 0, quick |-> 1, standard |-> 2, deep |-> 3]

\* Config.get_debate_mode: an unknown mode is the standard mode
v1_get_debate_mode(mode) ==
    IF mode \in DOMAIN v1_debate_modes THEN v1_debate_modes[mode]
    ELSE v1_debate_modes["standard"]

V1ModeArgs == DOMAIN v1_debate_modes \cup {"turbo"}

\* the runs explored issue at most this many backend calls in their rounds
MaxV1Calls == 4

\* a loop that asks for round 1 only when the mode declares it
V1RoundsRun_Declared(n) == 1..n

\* the round numbers a run goes through: round 1 (lines 63-64) and
\* range(2, rounds + 1) (line 67)
V1RoundsRun(n) == {1} \cup (2..n)

\* _run_initial_round and _run_debate_round up to their await: one
\* get_multiple_responses call over model_keys, whose gather starts a task
\* for every key
V1StartRound ==
    /\ pc = "v1_round"
    /\ ri \in V1RoundsRun(mode_structure.rounds)
    /\ LET calls == [i \in DOMAIN model_keys |-> StartCall(model_keys[i])]
       IN fan' = [IdleFanOut EXCEPT !.pc = "gather", !.keys = model_keys,
                                    !.calls = calls,
                                    !.order = SettledIn(calls, 1)]
    /\ pc' = "v1_gather"
    /\ UNCHANGED <<duo, mode_structure, model_keys, session, ri, hr, final, cl,
                   saved, err>>

\* the responses came back: the round is built from them and start_debate
\* appends it (lines 64, 75)
V1CollectRound ==
    /\ pc = "v1_gather"
    /\ fan.pc = "returned"
    /\ session' = add_round(session, DebateRound(ri, fan.result))
    /\ ri' = ri + 1
    /\ pc' = "v1_round"
    /\ UNCHANGED <<duo, fan, mode_structure, model_keys, hr, final, cl, saved,
                   err>>

\* a task of the gather raised: the exception leaves start_debate
V1RoundRaises ==
    /\ pc = "v1_gather"
    /\ fan.pc = "raised"
    /\ Raising(fan.err)

\* lines 78-81, 219-228: after the last round the synthesizer is asked
V1StartSynthesis ==
    /\ pc = "v1_round"
    /\ ri \notin V1RoundsRun(mode_structure.rounds)
    /\ cl' = StartCall(Synthesizer)
    /\ pc' = "v1_synthesis"
    /\ UNCHANGED <<duo, fan, mode_structure, model_keys, session, ri, hr, final,
                   saved, err>>

\* lines 230-243: the synthesis, or the best response of the last round
V1CollectSynthesis ==
    /\ pc = "v1_synthesis"
    /\ cl.pc \in {"returned", "raised"}
    /\ IF cl.pc = "raised"
       THEN Raising(cl.err)
       ELSE IF cl.result = None /\ session.rounds = <<>>
       THEN Raising("IndexError")
       ELSE IF cl.result = None
               /\ session.rounds[Len(session.rounds)].responses = <<>>
       THEN Raising("ValueError")
       ELSE /\ final' =
                 IF cl.result # None
                 THEN Some([answer |-> cl.result[1].content,
                            confidence |->
                                ConfidenceOr(cl.result[1].confidence,
                                             SynthesisDefault),
                            via |-> "synthesis"])
                 ELSE LET best == BestResponse(
                              session.rounds[Len(session.rounds)].responses)
                      IN Some([answer |-> best.content,
                               confidence |->
                                   ConfidenceOr(best.confidence,
                                                BestResponseDefault),
                               via |-> "best_response"])
            /\ pc' = "v1_complete"
            /\ cl' = IdleClient
            /\ UNCHANGED <<duo, fan, mode_structure, model_keys, session, ri, hr,
                           saved, err>>

\* lines 83-101: complete, the token total, _save_debate, which writes the
\* session or logs the error of the write, and the return
V1Complete ==
    /\ pc = "v1_complete"
    /\ session' =
          [complete(session, final[1].answer, final[1].confidence)
              EXCEPT !.total_tokens = SumTokens(session.rounds)]
    /\ \E written \in BOOLEAN :
          saved' = IF written THEN Append(saved, session') ELSE saved
    /\ pc' = "done"
    /\ UNCHANGED <<duo, fan, mode_structure, model_keys, ri, hr, final, cl, err>>

InitV1 ==
    /\ \E mode \in V1ModeArgs :
          /\ mode_structure = [rounds |-> v1_get_debate_mode(mode)]
          /\ session = [NewSession EXCEPT !.mode = mode]
    /\ model_keys \in {ResolveKeys(arg) : arg \in KeyArgs}
    /\ Cardinality(V1RoundsRun(mode_structure.rounds)) * Len(model_keys)
          <= MaxV1Calls
    /\ pc = "v1_round"
    /\ ri = 1
    /\ hr = IdleHandler
    /\ final = None
    /\ cl = IdleClient
    /\ saved = <<>>
    /\ err = ""
    /\ fan = [IdleFanOut EXCEPT !.pc = "returned"]
    /\ duo = IdleDuo

NextV1 ==
    \/ V1StartRound \/ V1CollectRound \/ V1RoundRaises
    \/ FanAttemptOk \/ FanAttemptFails \/ GatherReturn \/ GatherRaise
    \/ V1StartSynthesis \/ V1CollectSynthesis \/ V1Complete
    \/ Client

SpecV1 == InitV1 /\ [][NextV1]_vars

\* the place of a key in model_keys
Pos(key) == CHOOSE p \in DOMAIN model_keys : model_keys[p] = key

\* the responses are those of one fan-out over model_keys: at most one per
\* key, in key order
OneFanOut(responses) ==
    \A j, k \in DOMAIN responses :
        /\ \E p \in DOMAIN model_keys : model_keys[p] = responses[j].model_key
        /\ j < k => Pos(responses[j].model_key) < Pos(responses[k].model_key)

V1RoundsOver == pc \in {"v1_synthesis", "v1_complete", "done"}

\* C38: a run of the V1 DebateManager on a mode that declares N rounds
\* records round 1 whatever N is and then the rounds 2..N: after its rounds
\* the session holds max(1, N) rounds numbered from 1 without a gap, every
\* round is built from one get_multiple_responses call over model_keys, and
\* the synthesis, or else the best response of the last round, always
\* gives the final answer
C38_V1RoundsThenSynthesis ==
    /\ \A i \in DOMAIN session.rounds :
          /\ session.rounds[i].round_number = i
          /\ OneFanOut(session.rounds[i].responses)
    /\ pc = "v1_gather" =>
          /\ fan.keys = model_keys
          /\ Len(fan.calls) = Len(model_keys)
          /\ Len(session.rounds) = ri - 1
    /\ (pc = "v1_round" /\ ri > 1) =>
          /\ Len(session.rounds) = ri - 1
          /\ LastRound.responses = fan.result
    /\ V1RoundsOver =>
          /\ Len(session.rounds)
               = (IF mode_structure.rounds > 1 THEN mode_structure.rounds
                  ELSE 1)
          /\ LastRound.responses = fan.result
    /\ pc \in {"v1_complete", "done"} =>
          /\ final # None
          /\ final[1].via \in {"synthesis", "best_response"}
          /\ final[1].via = "best_response" =>
                \E i \in 1..Len(LastRound.responses) :
                    /\ IsFirstMax(LastRound.responses, i)
                    /\ final[1].answer = LastRound.responses[i].content
    /\ pc = "done" =>
          /\ session.final_answer = Some(final[1].answer)
          /\ session.completed_at # None

\* a run on a mode that declares no round returned with its one round of
\* two responses
C38_OneRoundForNoDeclaredRound ==
    /\ pc = "done"
    /\ mode_structure.rounds = 0
    /\ Len(session.rounds) = 1
    /\ Len(session.rounds[1].responses) = 2

====
